---- MODULE Spec2Model ----
(***************************************************************************)
(* m-agent-twin: the request orchestrator (process_user_request), the run  *)
(* poller (get_assistant_response), the tool dispatch                      *)
(* (process_single_tool_call) and the thread store (thread_store.py),      *)
(* against a hosted assistant service whose calls may succeed or raise.    *)
(* Spec: the script's main(), and process_user_request called by a program *)
(* that has imported the module.  StoreSpec: thread_store.py on its own.   *)
(***************************************************************************)
EXTENDS Integers, Sequences, FiniteSets, TLC

\* ------------------------------------------------------------------ bounds
MaxRequests == 2   \* process_user_request calls in one process
MaxPolls    == 3   \* status polls in one request
MaxCalls    == 2   \* pending tool calls of one requires_action cycle

\* ------------------------------------------------------- python values
\* str-or-None values: None is [none |-> TRUE], a str is [none |-> FALSE, s |-> ...]
None == [none |-> TRUE, s |-> ""]

Str(s) == [none |-> FALSE, s |-> s]

\* results a tool handler can return: str values and non-str values
PyResults == { [t |-> "str", v |-> ""], [t |-> "str", v |-> "ok"], [t |-> "none", v |-> ""] }

\* json.dumps on the non-str results
json_dumps(r) ==
    CASE r.t = "none" -> "null"
      [] r.t = "list" -> "[]"
      [] r.t = "str"  -> "\"" \o r.v \o "\""

\* truth value of a str-or-None value (None and "" are falsy)
Truthy(o) == ~o.none /\ o.s # ""

\* ------------------------------------------------------- lookup keys
\* a lookup id is an int, a str or None; str(lookup_id) is its key in the shelf
Digit(d) ==
    CASE d = 0 -> "0" [] d = 1 -> "1" [] d = 2 -> "2" [] d = 3 -> "3"
      [] d = 4 -> "4" [] d = 5 -> "5" [] d = 6 -> "6" [] d = 7 -> "7"
      [] d = 8 -> "8" [] d = 9 -> "9"

RECURSIVE IntToStr(_)
IntToStr(n) == IF n < 10 THEN Digit(n) ELSE IntToStr(n \div 10) \o Digit(n % 10)

IntKey(n) == [kind |-> "int", n |-> n, s |-> ""]

StrKey(s) == [kind |-> "str", n |-> 0, s |-> s]

NoneKey == [kind |-> "none", n |-> 0, s |-> ""]

\* str(lookup_id)
PyStr(k) ==
    CASE k.kind = "int"  -> IntToStr(k.n)
      [] k.kind = "str"  -> k.s
      [] k.kind = "none" -> "None"

LookupIds == { IntKey(111), StrKey("111"), IntKey(7) }

\* ------------------------------------------------------- thread store
\* the shelf is a set of <<key, thread id>> entries

\* (mutant) the lookup without str(): an int lookup id never matches a key
check_if_thread_exists_raw(shelf, lookup_id) ==
    LET hits == { e \in shelf : lookup_id.kind = "str" /\ e[1] = lookup_id.s }
    IN  IF hits = {} THEN 0 ELSE (CHOOSE e \in hits : TRUE)[2]

\* threads_shelf.get(lookup_id_str, None): 0 stands for None
check_if_thread_exists(shelf, lookup_id) ==
    LET lookup_id_str == PyStr(lookup_id)
        hits == { e \in shelf : e[1] = lookup_id_str }
    IN  IF hits = {} THEN 0 ELSE (CHOOSE e \in hits : TRUE)[2]

\* (mutant) a store that writes nothing back
store_thread_lost(shelf, lookup_id, thread_id) == shelf

\* (mutant) a store that keeps the record a key already has
store_thread_first_wins(shelf, lookup_id, thread_id) ==
    IF \E e \in shelf : e[1] = PyStr(lookup_id) THEN shelf
    ELSE shelf \cup { << PyStr(lookup_id), thread_id >> }

\* threads_shelf[lookup_id_str] = thread_id
store_thread(shelf, lookup_id, thread_id) ==
    LET lookup_id_str == PyStr(lookup_id)
    IN  { e \in shelf : e[1] # lookup_id_str } \cup { <<lookup_id_str, thread_id>> }

\* ------------------------------------------------------- remote service
Statuses == { "queued", "in_progress", "requires_action", "completed",
              "failed", "cancelled", "expired" }

\* statuses a run does not leave once it has reached them
Settled == { "completed", "failed", "cancelled", "expired" }

\* text of the assistant message the service adds to a thread of n messages
Reply(n) == "reply " \o IntToStr(n + 1)

UserText == "u"

\* function_dispatch_table: the registered function names
function_dispatch_table ==
    { "add_calendar_event", "list_events", "update_or_cancel_event", "get_chat_response" }

\* function names a run can ask for, and what its 'arguments' text can be:
\* a JSON text, or a text json.loads rejects
ToolNames == { "add_calendar_event", "no_such_function" }

ArgForms == { "json", "bad" }

\* an entry of required_actions["tool_calls"]; its id is its position
ToolCalls == [name : ToolNames, arguments : ArgForms]

\* upload_files: each path names a file that is there or is not
FileSeqs == { << >>, << "present" >>, << "present", "missing" >> }

\* arguments of process_user_request that are read after step 1
Requests == [ thread_lookup_id : LookupIds, assistant_id : {None, Str("asst_1")} ]

Ev(op, ok) == [op |-> op, ok |-> ok]

VARIABLES
    threads_shelf,  \* the persisted shelf "threads_db"
    nextThread,     \* number of threads the remote service has created
    messages,       \* remote: thread id -> its messages, oldest first
    nreq,           \* process_user_request calls made so far
    pc,             \* position inside process_user_request
    req,            \* arguments of the current call
    assistant,      \* local 'assistant': "unbound" or the assistant's id
    thread_id,      \* local 'thread_id' of create_or_retrieve_thread (0 = None)
    thread,         \* local 'thread': id of the thread object (0 = None)
    run,            \* local 'run': "unbound" or "run"
    runStatus,      \* remote: status of the run of the current request
    polls,          \* statuses get_assistant_response has read in this call
    ra_seen,        \* how many of them were 'requires_action'
    scripted,       \* they are, in order, the first statuses of Script
    pending,        \* length of required_actions["tool_calls"] in the current cycle
    tool_calls,     \* its entries up to the one process_tool_calls has reached
    tools_output,   \* local 'tools_output' of process_tool_calls
    invoked,        \* handlers called in the current cycle
    submitted,      \* list passed to runs.submit_tool_outputs in the current cycle
    printed,        \* text printed by process_completed_run
    trace,          \* calls made by the current request, in order (successive
                    \* status reads are entered once)
    result,         \* value returned by the last call
    propagated,     \* TRUE when the last call ended by raising
    mainpc,         \* the script's main(): "start", or the exception it ended in
    user_input,     \* local 'user_input' of main: "unbound" or the line read
    calls,          \* store_thread calls made directly on the thread store
    looked,         \* the last direct check_if_thread_exists call and its value
    procs           \* processes sharing the shelf: each one's place in step 2
                    \* of a request, its lookup id and its locals

vars == << threads_shelf, nextThread, messages, nreq, pc, req, assistant, thread_id,
           thread, run, runStatus, polls, ra_seen, scripted, pending, tool_calls, tools_output,
           invoked, submitted, printed, trace, result, propagated,
           mainpc, user_input, calls, looked, procs >>

store    == << threads_shelf >>
remote   == << nextThread, messages, runStatus >>
locals   == << assistant, thread_id, thread, run >>
cycle    == << pending, tool_calls, tools_output, invoked, submitted >>
poller   == << polls, ra_seen, scripted, cycle, printed >>
script   == << mainpc, user_input >>
api      == << calls, looked >>

\* processes that run the program at the same time on one "threads_db"
Procs == { 1, 2 }

NoOutput == [none |-> TRUE, tool_call_id |-> 0, output |-> ""]

Init ==
    /\ threads_shelf = {}
    /\ nextThread = 0
    /\ messages = [t \in {} |-> <<>>]
    /\ nreq = 0
    /\ pc = "idle"
    /\ req = [ thread_lookup_id |-> NoneKey, assistant_id |-> None ]
    /\ assistant = "unbound"
    /\ thread_id = 0
    /\ thread = 0
    /\ run = "unbound"
    /\ runStatus = "none"
    /\ polls = 0
    /\ ra_seen = 0
    /\ scripted = TRUE
    /\ pending = 0
    /\ tool_calls = <<>>
    /\ tools_output = <<>>
    /\ invoked = 0
    /\ submitted = <<>>
    /\ printed = None
    /\ trace = <<>>
    /\ result = None
    /\ propagated = FALSE
    /\ mainpc = "start"
    /\ user_input = "unbound"
    /\ calls = <<>>
    /\ looked = [called |-> FALSE, lookup_id |-> NoneKey, ret |-> 0]
    /\ procs = [p \in Procs |-> [pc |-> "idle", lookup_id |-> NoneKey,
                                  thread_id |-> 0, thread |-> 0]]

\* (mutant) a handler that logs and re-raises
process_user_request_reraise == [propagated |-> TRUE, result |-> None]

\* the 'except Exception' clause of process_user_request: log, return None
process_user_request_except == [propagated |-> FALSE, result |-> None]

\* the locals of one requires_action cycle, gone when the cycle is left
NoCycle ==
    /\ pending' = 0
    /\ tool_calls' = <<>>
    /\ tools_output' = <<>>
    /\ invoked' = 0
    /\ submitted' = <<>>

\* the call ends in its outer handler after the events evs
Fail(evs) ==
    /\ pc' = "done"
    /\ trace' = trace \o evs
    /\ result' = process_user_request_except.result
    /\ propagated' = process_user_request_except.propagated

\* one call of process_user_request by a program that has imported the module
ProcessUserRequest ==
    /\ pc \in {"idle", "done"}
    /\ mainpc = "start"
    /\ ~propagated
    /\ nreq < MaxRequests
    /\ \E r \in Requests : req' = r
    /\ nreq' = nreq + 1
    /\ pc' = "step1"
    /\ assistant' = "unbound"
    /\ thread_id' = 0
    /\ thread' = 0
    /\ run' = "unbound"
    /\ runStatus' = "none"
    /\ polls' = 0
    /\ ra_seen' = 0
    /\ scripted' = TRUE
    /\ printed' = None
    /\ trace' = <<>>
    /\ UNCHANGED << script, api, procs, store, nextThread, messages, cycle, result, propagated >>

\* ------------------------------------------------- step 1: the assistant
\* retrieve_or_create_assistant: the ways one call can go, as
\* [evs |-> calls made, raised |-> it raised, id |-> id of the assistant returned]
RECURSIVE UploadOutcomes(_, _)
UploadOutcomes(files, evs) ==
    IF files = <<>> THEN { [evs |-> evs, raised |-> FALSE] }
    ELSE IF Head(files) = "missing"
         THEN { [evs |-> Append(evs, Ev("FileNotFoundError", FALSE)), raised |-> TRUE] }
         ELSE { [evs |-> Append(evs, Ev("files.create", FALSE)), raised |-> TRUE] }
              \cup UploadOutcomes(Tail(files), Append(evs, Ev("files.create", TRUE)))

\* (mutant) the tool check made after the uploads instead of before them
retrieve_or_create_assistant_late_check(assistant_id, retrieval_tool, upload_files) ==
    LET ups == UploadOutcomes(upload_files, <<>>)
        op  == IF Truthy(assistant_id) THEN "assistants.retrieve" ELSE "assistants.create"
        got == IF Truthy(assistant_id) THEN assistant_id.s ELSE "asst_new"
        ok  == { v \in ups : ~v.raised }
    IN  { [evs |-> u.evs, raised |-> TRUE, id |-> "unbound"] : u \in { v \in ups : v.raised } }
        \cup (IF upload_files # <<>> /\ ~retrieval_tool
              THEN { [evs |-> Append(u.evs, Ev("ValueError", FALSE)), raised |-> TRUE,
                      id |-> "unbound"] : u \in ok }
              ELSE { [evs |-> Append(u.evs, Ev(op, FALSE)), raised |-> TRUE,
                      id |-> "unbound"] : u \in ok }
                   \cup { [evs |-> Append(u.evs, Ev(op, TRUE)), raised |-> FALSE,
                           id |-> got] : u \in ok })

retrieve_or_create_assistant(assistant_id, retrieval_tool, upload_files) ==
    IF upload_files # <<>> /\ ~retrieval_tool
    THEN { [evs |-> << Ev("ValueError", FALSE) >>, raised |-> TRUE, id |-> "unbound"] }
    ELSE LET ups == UploadOutcomes(upload_files, <<>>)
             op  == IF Truthy(assistant_id) THEN "assistants.retrieve" ELSE "assistants.create"
             got == IF Truthy(assistant_id) THEN assistant_id.s ELSE "asst_new"
         IN  { [evs |-> u.evs, raised |-> TRUE, id |-> "unbound"] : u \in { v \in ups : v.raised } }
             \cup { [evs |-> Append(u.evs, Ev(op, FALSE)), raised |-> TRUE, id |-> "unbound"] :
                        u \in { v \in ups : ~v.raised } }
             \cup { [evs |-> Append(u.evs, Ev(op, TRUE)), raised |-> FALSE, id |-> got] :
                        u \in { v \in ups : ~v.raised } }

\* "1. Create assistant": an exception is printed and the call goes on to step 2
Step1Assistant ==
    /\ pc = "step1"
    /\ \E retrieval_tool \in BOOLEAN, upload_files \in FileSeqs :
          \E o \in retrieve_or_create_assistant(req.assistant_id, retrieval_tool,
                                                upload_files) :
             /\ assistant' = o.id
             /\ trace' = trace \o o.evs
    /\ pc' = "lookup"
    /\ UNCHANGED << script, api, procs, store, remote, nreq, req, thread_id, thread, run, poller,
                    result, propagated >>

\* ------------------------------------------------- step 2: the thread
\* create_or_retrieve_thread up to its branch: the shelf lookup
LookupThread ==
    /\ pc = "lookup"
    /\ \/ \* shelve.open raises: nothing in create_or_retrieve_thread catches it
          /\ Fail(<< Ev("shelf.get", FALSE) >>)
          /\ UNCHANGED << thread_id >>
       \/ /\ thread_id' = check_if_thread_exists(threads_shelf, req.thread_lookup_id)
          /\ pc' = IF thread_id' = 0 THEN "create_thread" ELSE "retrieve_thread"
          /\ trace' = Append(trace, Ev("shelf.get", TRUE))
          /\ UNCHANGED << result, propagated >>
    /\ UNCHANGED << script, api, procs, store, remote, nreq, req, assistant, thread, run, poller >>

\* create_new_thread: client.beta.threads.create()
CreateThread ==
    /\ pc = "create_thread"
    /\ \/ \* raises: create_new_thread returns None, "Failed to create thread."
          /\ Fail(<< Ev("threads.create", FALSE) >>)
          /\ UNCHANGED << thread, nextThread, messages >>
       \/ /\ nextThread' = nextThread + 1
          /\ messages' = (nextThread + 1 :> <<>>) @@ messages
          /\ thread' = nextThread + 1
          /\ pc' = "store_thread"
          /\ trace' = Append(trace, Ev("threads.create", TRUE))
          /\ UNCHANGED << result, propagated >>
    /\ UNCHANGED << script, api, procs, store, runStatus, nreq, req, assistant, thread_id, run, poller >>

\* create_new_thread: store_thread(lookup_id, thread.id); return thread
StoreThread ==
    /\ pc = "store_thread"
    /\ \/ \* shelve raises inside the try: create_new_thread returns None
          /\ Fail(<< Ev("shelf.set", FALSE) >>)
          /\ thread' = 0
          /\ UNCHANGED << threads_shelf >>
       \/ /\ threads_shelf' = store_thread(threads_shelf, req.thread_lookup_id, thread)
          /\ pc' = "add_message"
          /\ trace' = Append(trace, Ev("shelf.set", TRUE))
          /\ UNCHANGED << thread, result, propagated >>
    /\ UNCHANGED << script, api, procs, remote, nreq, req, assistant, thread_id, run, poller >>

\* retrieve_existing_thread: client.beta.threads.retrieve(thread_id)
RetrieveThread ==
    /\ pc = "retrieve_thread"
    /\ \/ \* raises: retrieve_existing_thread returns None
          /\ Fail(<< Ev("threads.retrieve", FALSE) >>)
          /\ UNCHANGED << thread >>
       \/ /\ thread' = thread_id
          /\ pc' = "add_message"
          /\ trace' = Append(trace, Ev("threads.retrieve", TRUE))
          /\ UNCHANGED << result, propagated >>
    /\ UNCHANGED << script, api, procs, store, remote, nreq, req, assistant, thread_id, run, poller >>

\* ------------------------------------------------- step 3: the message
\* add_message_to_thread: after a failure 'return message' raises UnboundLocalError
AddMessage ==
    /\ pc = "add_message"
    /\ \/ /\ Fail(<< Ev("messages.create", FALSE) >>)
          /\ UNCHANGED << messages >>
       \/ /\ messages' = [messages EXCEPT ![thread] =
                             Append(@, [role |-> "user", text |-> UserText])]
          /\ pc' = "create_run"
          /\ trace' = Append(trace, Ev("messages.create", TRUE))
          /\ UNCHANGED << result, propagated >>
    /\ UNCHANGED << script, api, procs, store, nextThread, runStatus, nreq, req, locals, poller >>

\* ------------------------------------------------- step 4: the run
\* create_run_for_assistant in its try; 'run' stays unbound when it raises, and
\* 'if run is None' then raises UnboundLocalError into the outer handler
CreateRun ==
    /\ pc = "create_run"
    /\ \/ \* 'assistant' is unbound: assistant.id raises before any call is made
          /\ assistant = "unbound"
          /\ Fail(<< Ev("UnboundLocalError", FALSE) >>)
          /\ UNCHANGED << run, runStatus >>
       \/ /\ assistant # "unbound"
          /\ Fail(<< Ev("runs.create", FALSE) >>)
          /\ UNCHANGED << run, runStatus >>
       \/ /\ assistant # "unbound"
          /\ run' = "run"
          /\ runStatus' = "queued"
          /\ pc' = "poll"
          /\ trace' = Append(trace, Ev("runs.create", TRUE))
          /\ UNCHANGED << result, propagated >>
    /\ UNCHANGED << script, api, procs, store, nextThread, messages, nreq, req, assistant, thread_id,
                    thread, poller >>

\* ------------------------------------------------- step 5: the run poller
\* (mutant) 'completed' handled without leaving the loop
StatusBranch_noreturn(status) ==
    IF status = "requires_action" THEN "tool_calls" ELSE "poll"

\* (mutant) a failed run taken for a finished one
StatusBranch_failed(status) ==
    IF status \in {"completed", "failed"} THEN "completed_run"
    ELSE IF status = "requires_action" THEN "tool_calls"
    ELSE "poll"

\* the status sequence of the poller's test scenario
Script == << "in_progress", "requires_action", "completed" >>

\* the if / elif / else of get_assistant_response: where a status leads
StatusBranch(status) ==
    IF status = "completed" THEN "completed_run"
    ELSE IF status = "requires_action" THEN "tool_calls"
    ELSE "poll"

\* one pass of the 'while True' of get_assistant_response: sleep, read the status,
\* branch on it.  The remote run's progress since the last read is chosen here.
Poll ==
    /\ pc = "poll"
    /\ polls < MaxPolls
    /\ \/ \* runs.retrieve raises
          /\ Fail(<< Ev("runs.retrieve", FALSE) >>)
          /\ NoCycle
          /\ UNCHANGED << runStatus, messages, polls, ra_seen, scripted >>
       \/ \E s \in (IF runStatus \in Settled THEN {runStatus} ELSE Statuses) :
             /\ runStatus' = s
             /\ polls' = polls + 1
             /\ ra_seen' = IF s = "requires_action" THEN ra_seen + 1 ELSE ra_seen
             /\ scripted' = (scripted /\ polls < Len(Script) /\ s = Script[polls + 1])
             /\ trace' = IF trace[Len(trace)] = Ev("runs.retrieve", TRUE) THEN trace
                         ELSE Append(trace, Ev("runs.retrieve", TRUE))
             /\ pc' = StatusBranch(s)
             /\ UNCHANGED << result, propagated >>
             /\ tools_output' = <<>>
             /\ invoked' = 0
             /\ submitted' = <<>>
             /\ \/ messages' = messages
                \/ /\ s = "completed"
                   /\ messages' = [messages EXCEPT ![thread] =
                         Append(@, [role |-> "assistant", text |-> Reply(Len(@))])]
             /\ IF pc' = "tool_calls"
                THEN /\ \E n \in 1..MaxCalls : pending' = n
                     /\ \E action \in ToolCalls : tool_calls' = << action >>
                ELSE /\ pending' = 0
                     /\ tool_calls' = <<>>
    /\ UNCHANGED << script, api, procs, store, nextThread, nreq, req, locals, printed >>

\* what a handler call can do: return one of PyResults, or raise
HandlerOutcomes == { [raised |-> FALSE, result |-> r] : r \in PyResults }
                       \cup { [raised |-> TRUE, result |-> [t |-> "none", v |-> ""]] }

\* (mutant) function_dispatch_table[func_name] instead of .get(func_name)
process_single_tool_call_keyerror(action, id, h) ==
    IF action.arguments = "bad" \/ action.name \notin function_dispatch_table
    THEN [raised |-> TRUE, invoked |-> FALSE, tool_output |-> NoOutput]
    ELSE IF h.raised
    THEN [raised |-> TRUE, invoked |-> TRUE, tool_output |-> NoOutput]
    ELSE LET output == IF h.result.t # "str" THEN json_dumps(h.result) ELSE h.result.v
         IN  [raised |-> FALSE, invoked |-> TRUE,
              tool_output |-> IF output # ""
                              THEN [none |-> FALSE, tool_call_id |-> id, output |-> output]
                              ELSE NoOutput]

\* process_single_tool_call(action) for the call with id 'id', when the handler
\* (if one is called) behaves as h:
\* [raised, invoked |-> the handler was called, tool_output]
process_single_tool_call(action, id, h) ==
    IF action.arguments = "bad"
    THEN [raised |-> TRUE, invoked |-> FALSE, tool_output |-> NoOutput]
    ELSE IF action.name \in function_dispatch_table
    THEN IF h.raised
         THEN [raised |-> TRUE, invoked |-> TRUE, tool_output |-> NoOutput]
         ELSE LET output == IF h.result.t # "str" THEN Str(json_dumps(h.result))
                            ELSE Str(h.result.v)
              IN  [raised |-> FALSE, invoked |-> TRUE,
                   tool_output |-> IF Truthy(output)
                                   THEN [none |-> FALSE, tool_call_id |-> id,
                                         output |-> output.s]
                                   ELSE NoOutput]
    ELSE LET output == None
         IN  [raised |-> FALSE, invoked |-> FALSE,
              tool_output |-> IF Truthy(output)
                              THEN [none |-> FALSE, tool_call_id |-> id, output |-> output.s]
                              ELSE NoOutput]

\* (mutant) a loop that hands over to submit_tool_outputs after its first entry
ProcessToolCall_each ==
    /\ pc = "tool_calls"
    /\ \E h \in HandlerOutcomes :
          LET id == Len(tool_calls)
              o  == process_single_tool_call(tool_calls[id], id, h)
          IN  IF o.raised
              THEN /\ Fail(<< Ev(IF o.invoked THEN "handler" ELSE "json.loads", FALSE) >>)
                   /\ NoCycle
              ELSE /\ tools_output' = Append(tools_output, o.tool_output)
                   /\ invoked' = IF o.invoked THEN invoked + 1 ELSE invoked
                   /\ pc' = "submit"
                   /\ UNCHANGED << tool_calls, pending, submitted, trace, result, propagated >>
    /\ UNCHANGED << script, api, procs, store, remote, nreq, req, locals, polls, ra_seen, scripted, printed >>

\* one iteration of the loop of process_tool_calls, on the entry it has reached;
\* the entries of the list are drawn as the loop reaches them
ProcessToolCall ==
    /\ pc = "tool_calls"
    /\ \E h \in HandlerOutcomes :
          LET id == Len(tool_calls)
              o  == process_single_tool_call(tool_calls[id], id, h)
          IN  IF o.raised
              THEN /\ Fail(<< Ev(IF o.invoked THEN "handler" ELSE "json.loads", FALSE) >>)
                   /\ NoCycle
              ELSE /\ tools_output' = Append(tools_output, o.tool_output)
                   /\ invoked' = IF o.invoked THEN invoked + 1 ELSE invoked
                   /\ IF id = pending
                      THEN /\ pc' = "submit"
                           /\ UNCHANGED tool_calls
                      ELSE /\ pc' = "tool_calls"
                           /\ \E next \in ToolCalls : tool_calls' = Append(tool_calls, next)
                   /\ UNCHANGED << pending, submitted, trace, result, propagated >>
    /\ UNCHANGED << script, api, procs, store, remote, nreq, req, locals, polls, ra_seen, scripted, printed >>

\* submit_tool_outputs: one call with the whole list, when the list is not empty
SubmitToolOutputs ==
    /\ pc = "submit"
    /\ IF tools_output # <<>>
       THEN \/ /\ Fail(<< Ev("runs.submit_tool_outputs", FALSE) >>)
               /\ NoCycle
            \/ /\ submitted' = tools_output
               /\ pc' = "poll"
               /\ trace' = Append(trace, Ev("runs.submit_tool_outputs", TRUE))
               /\ UNCHANGED << pending, tool_calls, tools_output, invoked,
                               result, propagated >>
       ELSE /\ pc' = "poll"
            /\ UNCHANGED << cycle, trace, result, propagated >>
    /\ UNCHANGED << script, api, procs, store, remote, nreq, req, locals, polls, ra_seen, scripted, printed >>

\* messages.list: the thread's messages, newest first
RECURSIVE Reverse(_)
Reverse(q) == IF q = <<>> THEN <<>> ELSE Append(Reverse(Tail(q)), Head(q))

\* process_completed_run on messages.data: print the first assistant message, 'return'
RECURSIVE process_completed_run(_)
process_completed_run(data) ==
    IF data = <<>> THEN [printed |-> None, ret |-> None]
    ELSE IF Head(data).role = "assistant"
         THEN [printed |-> Str(Head(data).text), ret |-> None]
         ELSE process_completed_run(Tail(data))

\* status "completed": return process_completed_run(thread, client)
CompletedRun ==
    /\ pc = "completed_run"
    /\ \/ \* messages.list raises
          /\ Fail(<< Ev("messages.list", FALSE) >>)
          /\ UNCHANGED << printed >>
       \/ LET o == process_completed_run(Reverse(messages[thread]))
          IN  /\ printed' = o.printed
              /\ result' = o.ret
              /\ propagated' = FALSE
              /\ pc' = "done"
              /\ trace' = trace \o << Ev("messages.list", TRUE), Ev("return", TRUE) >>
    /\ UNCHANGED << script, api, procs, store, remote, nreq, req, locals, polls, ra_seen, scripted, cycle >>

\* ------------------------------------------------- the script: main()
\* time zone names config.json can hold: one pytz knows, one it does not
Timezones == { "UTC", "Mars/Olympus" }

\* get_current_time_and_timezone(timezone_config), as the exception it ends in:
\* pytz.UnknownTimeZoneError becomes ValueError; otherwise 'datetime.now' is
\* looked up in the module that 'import datetime' (line 197) has bound to the
\* name in place of the class, and raises AttributeError
get_current_time_and_timezone(timezone_config) ==
    IF timezone_config = "UTC" THEN "AttributeError" ELSE "ValueError"

\* main() when the module is run as a script: line 441 raises before the
\* 'while True' is entered, no line is read, the process ends with a traceback
Main ==
    /\ mainpc = "start"
    /\ pc = "idle"
    /\ nreq = 0
    /\ \E timezone_config \in Timezones :
          mainpc' = get_current_time_and_timezone(timezone_config)
    /\ UNCHANGED << user_input, api, procs, store, remote, nreq, pc, req, locals, poller,
                    trace, result, propagated >>

Next ==
    \/ Main
    \/ ProcessUserRequest
    \/ Step1Assistant
    \/ LookupThread
    \/ CreateThread
    \/ StoreThread
    \/ RetrieveThread
    \/ AddMessage
    \/ CreateRun
    \/ Poll
    \/ ProcessToolCall
    \/ SubmitToolOutputs
    \/ CompletedRun

Spec == Init /\ [][Next]_vars

\* ------------------------------------------- the thread store on its own
\* thread_store.py called directly, with any lookup id and thread id
MaxStores == 3   \* direct store_thread calls

StoreKeys == LookupIds \cup { NoneKey, StrKey("None") }

ThreadIds == { 1, 2 }

orchestrator == << nextThread, messages, nreq, pc, req, locals, runStatus, poller,
                   trace, result, propagated, script, procs >>

\* store_thread(lookup_id, thread_id)
StoreCall ==
    /\ Len(calls) < MaxStores
    /\ \E lookup_id \in StoreKeys, tid \in ThreadIds :
          /\ threads_shelf' = store_thread(threads_shelf, lookup_id, tid)
          /\ calls' = Append(calls, [lookup_id |-> lookup_id, thread_id |-> tid])
    /\ UNCHANGED << looked, orchestrator >>

\* check_if_thread_exists(lookup_id)
LookupCall ==
    /\ \E lookup_id \in StoreKeys :
          looked' = [called |-> TRUE, lookup_id |-> lookup_id,
                     ret |-> check_if_thread_exists(threads_shelf, lookup_id)]
    /\ UNCHANGED << threads_shelf, calls, orchestrator >>

StoreNext ==
    \/ StoreCall
    \/ LookupCall

StoreSpec == Init /\ [][StoreNext]_vars

\* ------------------------------------------- two processes, one shelf
\* Each process handles one request; its steps 2 and 3 are followed, one
\* shelf operation or remote call at a time, the steps of the two processes
\* in any order.  A shelf operation is one shelve.open ... close: it takes
\* effect as a whole or raises.
single == << nreq, pc, req, locals, runStatus, poller, trace, result, propagated,
             script, looked >>

\* process p leaves its request through the handler of process_user_request
RaceFail(p) == procs' = [procs EXCEPT ![p].pc = "failed"]

\* process_user_request(..., thread_lookup_id) is called in process p
RaceRequest ==
    /\ \E p \in Procs, lookup_id \in LookupIds :
          /\ procs[p].pc = "idle"
          /\ procs' = [procs EXCEPT ![p].pc = "lookup", ![p].lookup_id = lookup_id]
    /\ UNCHANGED << threads_shelf, nextThread, messages, calls, single >>

\* create_or_retrieve_thread: thread_id = check_if_thread_exists(lookup_id)
RaceLookup ==
    /\ \E p \in Procs :
          /\ procs[p].pc = "lookup"
          /\ \/ RaceFail(p)
             \/ LET id == check_if_thread_exists(threads_shelf, procs[p].lookup_id)
                IN  procs' = [procs EXCEPT
                                 ![p].thread_id = id,
                                 ![p].pc = IF id = 0 THEN "create_thread"
                                           ELSE "retrieve_thread"]
    /\ UNCHANGED << threads_shelf, nextThread, messages, calls, single >>

\* create_new_thread: thread = client.beta.threads.create()
RaceCreate ==
    /\ \E p \in Procs :
          /\ procs[p].pc = "create_thread"
          /\ \/ /\ RaceFail(p)
                /\ UNCHANGED << nextThread, messages >>
             \/ /\ nextThread' = nextThread + 1
                /\ messages' = (nextThread + 1 :> <<>>) @@ messages
                /\ procs' = [procs EXCEPT ![p].thread = nextThread + 1,
                                          ![p].pc = "store_thread"]
    /\ UNCHANGED << threads_shelf, calls, single >>

\* create_new_thread: store_thread(lookup_id, thread.id); return thread
RaceStore ==
    /\ \E p \in Procs :
          /\ procs[p].pc = "store_thread"
          /\ \/ /\ procs' = [procs EXCEPT ![p].pc = "failed", ![p].thread = 0]
                /\ UNCHANGED << threads_shelf, calls >>
             \/ /\ threads_shelf' = store_thread(threads_shelf, procs[p].lookup_id,
                                                 procs[p].thread)
                /\ calls' = Append(calls, [lookup_id |-> procs[p].lookup_id,
                                           thread_id |-> procs[p].thread])
                /\ procs' = [procs EXCEPT ![p].pc = "add_message"]
    /\ UNCHANGED << nextThread, messages, single >>

\* retrieve_existing_thread: client.beta.threads.retrieve(thread_id)
RaceRetrieve ==
    /\ \E p \in Procs :
          /\ procs[p].pc = "retrieve_thread"
          /\ \/ RaceFail(p)
             \/ procs' = [procs EXCEPT ![p].thread = procs[p].thread_id,
                                       ![p].pc = "add_message"]
    /\ UNCHANGED << threads_shelf, nextThread, messages, calls, single >>

\* step 3 in process p: the user's message goes to the thread p holds
RaceAddMessage ==
    /\ \E p \in Procs :
          /\ procs[p].pc = "add_message"
          /\ \/ /\ RaceFail(p)
                /\ UNCHANGED << messages >>
             \/ /\ messages' = [messages EXCEPT ![procs[p].thread] =
                                   Append(@, [role |-> "user", text |-> UserText])]
                /\ procs' = [procs EXCEPT ![p].pc = "create_run"]
    /\ UNCHANGED << threads_shelf, nextThread, calls, single >>

RaceNext ==
    \/ RaceRequest
    \/ RaceLookup
    \/ RaceCreate
    \/ RaceStore
    \/ RaceRetrieve
    \/ RaceAddMessage

RaceSpec == Init /\ [][RaceNext]_vars

\* ------------------------------------------------------------ properties
HasEv(op, ok) == \E i \in 1..Len(trace) : trace[i] = Ev(op, ok)

CountEv(op) == Cardinality({ i \in 1..Len(trace) : trace[i].op = op })

\* some call of the current request raised
SomeRaised == \E i \in 1..Len(trace) : ~trace[i].ok

\* the current request left process_user_request through the return of step 5
Returned == pc = "done" /\ Len(trace) > 0 /\ trace[Len(trace)] = Ev("return", TRUE)

AssistantIdx(msgs) == { i \in 1..Len(msgs) : msgs[i].role = "assistant" }

LatestAssistantText(msgs) ==
    msgs[CHOOSE i \in AssistantIdx(msgs) : \A j \in AssistantIdx(msgs) : j <= i].text

\* C1: when the poller has seen 'completed' and the thread holds an assistant
\* message, process_user_request returns the text of the most recent one.
C1_ReturnsLatestAssistantText ==
    (Returned /\ AssistantIdx(messages[thread]) # {})
        => result = Str(LatestAssistantText(messages[thread]))

\* C2: the list handed to submit_tool_outputs holds exactly the outputs of the
\* calls whose dispatch produced one, and no absent entry.
C2_SubmittedHasNoAbsentEntry ==
    submitted # <<>> =>
        /\ \A i \in 1..Len(submitted) : ~submitted[i].none
        /\ submitted = SelectSeq(tools_output, LAMBDA o : ~o.none)

\* C3: process_user_request never ends by raising; when one of its calls has
\* raised, it ends by returning None, and the loop can make its next call.
C3_NeverPropagates ==
    /\ ~propagated
    /\ (pc = "done" /\ SomeRaised) => (result = None /\ ~Returned)

C3_Witness ==
    /\ pc = "done" /\ result = None /\ ~propagated
    /\ HasEv("handler", FALSE)
    /\ nreq < MaxRequests

\* a shelf operation of the current request raised
ShelfRaised == HasEv("shelf.get", FALSE) \/ HasEv("shelf.set", FALSE)

\* C4 as stated: a shelf error during a request propagates out of
\* process_user_request.
C4_ShelfErrorPropagates == (pc = "done" /\ ShelfRaised) => propagated

\* C4 as amended: a shelf error during a request is caught (a failed store by
\* create_new_thread, a failed lookup by process_user_request): the call
\* returns None without raising, it is the last thing the request does, and
\* after a failed store the key still has no stored thread.
C4_ShelfErrorCaught ==
    (pc = "done" /\ ShelfRaised) =>
        /\ ~propagated
        /\ result = None
        /\ HasEv("shelf.set", FALSE) =>
              check_if_thread_exists(threads_shelf, req.thread_lookup_id) = 0
        /\ trace[Len(trace)].op \in {"shelf.get", "shelf.set"}

C4_Witness ==
    /\ pc = "done" /\ HasEv("shelf.set", FALSE) /\ ~propagated /\ result = None
    /\ nextThread > 0

\* the current request's lookup found no thread for its key
Miss == HasEv("shelf.get", TRUE) /\ thread_id = 0

\* C5: a lookup miss leads to the creation of a new remote thread (never to an
\* error for the miss itself), its id is stored under the key once creation and
\* store have gone through, and the shelf holds at most one thread id per key.
C5_MissCreatesAndStores ==
    /\ \A e1, e2 \in threads_shelf : e1[1] = e2[1] => e1[2] = e2[2]
    /\ Miss =>
          /\ pc = "create_thread" \/ CountEv("threads.create") = 1
          /\ HasEv("shelf.set", TRUE) =>
                /\ thread = nextThread
                /\ << PyStr(req.thread_lookup_id), thread >> \in threads_shelf
                /\ check_if_thread_exists(threads_shelf, req.thread_lookup_id) = thread
    /\ HasEv("threads.create", TRUE) => Miss

C5_Witness ==
    /\ Miss /\ HasEv("shelf.set", TRUE) /\ pc = "add_message"
    /\ Cardinality(threads_shelf) = 2

\* C6: a key that has a stored thread id keeps exactly that id: no step of any
\* request overwrites or deletes a record.
C6_RecordsNeverChange == [][\A e \in threads_shelf : e \in threads_shelf']_vars

C6_Witness ==
    /\ nreq = 2 /\ pc = "done" /\ SomeRaised
    /\ HasEv("threads.retrieve", TRUE)
    /\ req.thread_lookup_id = IntKey(111)
    /\ threads_shelf = { << "111", 1 >> }

\* C7: one round trip (handler calls, then one submission) per 'requires_action'
\* read and none for any other status; polling stops at the first 'completed';
\* [in_progress, requires_action, completed] gives one round trip, three polls.
C7_OneRoundTripPerRequiresAction ==
    /\ pc = "poll" => runStatus # "completed"
    /\ (pc \in {"poll", "completed_run"} \/ Returned) =>
          /\ CountEv("runs.submit_tool_outputs") = ra_seen
          /\ ~HasEv("runs.submit_tool_outputs", FALSE)
    /\ pc \in {"tool_calls", "submit"} =>
          /\ runStatus = "requires_action"
          /\ CountEv("runs.submit_tool_outputs") = ra_seen - 1
    /\ (invoked > 0 \/ tool_calls # <<>> \/ submitted # <<>>) =>
          runStatus = "requires_action"
    /\ (pc = "completed_run" \/ Returned) => runStatus = "completed"
    /\ (Returned /\ scripted) =>
          /\ polls = 3
          /\ ra_seen = 1
          /\ CountEv("runs.submit_tool_outputs") = 1

C7_Witness ==
    /\ Returned
    /\ scripted
    /\ polls = Len(Script)
    /\ CountEv("runs.submit_tool_outputs") = 1

\* C8: the poller returns only after reading 'completed'; a status other than
\* 'completed' and 'requires_action' changes nothing and leads to the next
\* poll; once the run has settled in failed, cancelled or expired, no status
\* read takes the poller out of its loop (only a status read that raises does).
C8_ReturnsOnlyOnCompleted ==
    /\ []((pc = "completed_run" \/ Returned) => (polls > 0 /\ runStatus = "completed"))
    /\ [][(pc = "poll" /\ polls' # polls
             /\ runStatus' \notin {"completed", "requires_action"}) =>
          (/\ pc' = "poll"
           /\ UNCHANGED << threads_shelf, nextThread, messages, assistant, thread_id,
                           thread, run, printed, result, propagated >>)]_vars
    /\ [][(pc = "poll" /\ runStatus \in {"failed", "cancelled", "expired"}) =>
          \/ pc' = "poll" /\ runStatus' = runStatus
          \/ pc' = "done" /\ trace' = Append(trace, Ev("runs.retrieve", FALSE))]_vars

C8_Witness ==
    /\ pc = "poll"
    /\ polls = MaxPolls
    /\ runStatus = "expired"

\* C9: a tool call whose name is not in the dispatch table gives no output,
\* does not raise, and calls no handler.
C9_UnregisteredNameIsNoOp ==
    [][(/\ pc = "tool_calls"
        /\ tool_calls[Len(tool_calls)].name \notin function_dispatch_table
        /\ tool_calls[Len(tool_calls)].arguments # "bad") =>
       (/\ tools_output' = Append(tools_output, NoOutput)
        /\ invoked' = invoked
        /\ pc' \in {"tool_calls", "submit"}
        /\ trace' = trace
        /\ ~propagated')]_vars

C9_Witness ==
    /\ pc = "submit"
    /\ Len(tool_calls) = 2
    /\ tool_calls[1].name \in function_dispatch_table
    /\ tool_calls[2].name \notin function_dispatch_table
    /\ invoked = 1
    /\ tools_output[2] = NoOutput

\* the calls of the current request, without file uploads and poller traffic
MainOps ==
    LET t == SelectSeq(trace, LAMBDA e : e.op \notin {"files.create",
                                                      "runs.submit_tool_outputs"})
    IN  [i \in 1..Len(t) |-> t[i].op]

\* the order of C10, without the value returned
FirstContactOrder ==
    /\ \E a \in {"assistants.retrieve", "assistants.create"}, n \in 1..MaxPolls :
          MainOps = << a, "shelf.get", "threads.create", "shelf.set", "messages.create",
                       "runs.create" >>
                    \o [i \in 1..n |-> "runs.retrieve"]
                    \o << "messages.list", "return" >>
    /\ << PyStr(req.thread_lookup_id), thread >> \in threads_shelf
    /\ thread = nextThread
    /\ Head(messages[thread]) = [role |-> "user", text |-> UserText]
    /\ Cardinality({ i \in 1..Len(messages[thread]) : messages[thread][i].role = "user" }) = 1
    /\ run = "run"
    /\ runStatus = "completed"
    /\ \A i \in 1..Len(trace) :
          trace[i].op = "runs.submit_tool_outputs" =>
             /\ trace[i - 1].op = "runs.retrieve"
             /\ trace[i + 1].op = "runs.retrieve"

\* a request for a key without a stored thread, all of whose calls succeeded
FirstContactDone ==
    pc = "done" /\ ~SomeRaised /\ HasEv("threads.create", TRUE)

\* C10: first contact for a key, every call succeeding: assistant resolved,
\* thread created, id stored under str(key), message appended, run started,
\* status polled until 'completed', reply returned; once each, in this order.
C10_FirstContactSequence ==
    (FirstContactDone /\ AssistantIdx(messages[thread]) # {}) =>
        /\ FirstContactOrder
        /\ result = Str(LatestAssistantText(messages[thread]))

\* the part of C10 the code keeps: the order of the calls
C10_OrderOnly == FirstContactDone => FirstContactOrder

\* ------------------------------------------- properties of the thread store
\* two lookup ids are the same key when they are written the same: 111 and "111"
SameKey(a, b) == PyStr(a) = PyStr(b)

\* positions in calls of the stores made under the key of lookup id k
StoresOf(k) == { i \in 1..Len(calls) : SameKey(calls[i].lookup_id, k) }

\* the thread id last stored under the key of k, 0 when none was
LastStored(k) ==
    IF StoresOf(k) = {} THEN 0
    ELSE calls[CHOOSE i \in StoresOf(k) : \A j \in StoresOf(k) : j <= i].thread_id

\* C11: a lookup for a key never stored returns None; after a store under a key
\* the lookup returns exactly the stored thread id, the int and the str form
\* of a key (111 and "111") being one and the same key.
C11_LookupAfterStore ==
    /\ [][looked' # looked => looked'.ret = LastStored(looked'.lookup_id)]_vars
    /\ [](\A k \in StoreKeys :
            /\ StoresOf(k) = {} => check_if_thread_exists(threads_shelf, k) = 0
            /\ \A t \in ThreadIds, k2 \in StoreKeys :
                  SameKey(k, k2) =>
                     check_if_thread_exists(store_thread(threads_shelf, k, t), k2) = t)

C11_Witness ==
    /\ Len(calls) = 1
    /\ calls[1] = [lookup_id |-> IntKey(111), thread_id |-> 2]
    /\ looked = [called |-> TRUE, lookup_id |-> StrKey("111"), ret |-> 2]

\* C12: store is a last-write-wins upsert: after store(key, t2) the lookup of
\* the key returns t2, whatever it returned before, and the lookup of every
\* other key returns what it returned before.
C12_LastWriteWins ==
    [][calls' # calls =>
         LET c == calls'[Len(calls')]
         IN  \A k \in StoreKeys :
                check_if_thread_exists(threads_shelf', k) =
                   IF SameKey(k, c.lookup_id) THEN c.thread_id
                   ELSE check_if_thread_exists(threads_shelf, k)]_vars

C12_Witness ==
    /\ calls = << [lookup_id |-> StrKey("111"), thread_id |-> 1],
                  [lookup_id |-> IntKey(7), thread_id |-> 1],
                  [lookup_id |-> IntKey(7), thread_id |-> 2] >>
    /\ looked = [called |-> TRUE, lookup_id |-> IntKey(7), ret |-> 2]
    /\ check_if_thread_exists(threads_shelf, IntKey(111)) = 1

\* ------------------------------------------- properties of the orchestrator
\* C13: with a non-empty file list and no 'retrieval' or 'code_interpreter'
\* tool, assistant resolution raises ValueError before any file is uploaded
\* and before an assistant is retrieved or created, with or without an id.
C13_ValidationBeforeAnyCall ==
    /\ \A assistant_id \in { None, Str("asst_1") }, upload_files \in FileSeqs \ { << >> } :
          retrieve_or_create_assistant(assistant_id, FALSE, upload_files) =
             { [evs |-> << Ev("ValueError", FALSE) >>, raised |-> TRUE, id |-> "unbound"] }
    /\ HasEv("ValueError", FALSE) =>
          /\ trace[1] = Ev("ValueError", FALSE)
          /\ CountEv("files.create") = 0
          /\ CountEv("assistants.retrieve") = 0
          /\ CountEv("assistants.create") = 0
          /\ assistant = "unbound"

C13_Witness ==
    /\ pc = "lookup"
    /\ Truthy(req.assistant_id)
    /\ trace = << Ev("ValueError", FALSE) >>

\* the records the shelf holds for the key of the current request
RecordsOfKey == { e \in threads_shelf : e[1] = PyStr(req.thread_lookup_id) }

\* C14: no rollback: when a request has created and stored a thread and a
\* later step fails, the request returns None with the record still in the
\* shelf, and the next request for the key retrieves that thread and creates
\* none.
C14_NoRollback ==
    /\ []((pc = "done" /\ HasEv("shelf.set", TRUE) /\ SomeRaised) =>
             /\ result = None
             /\ ~propagated
             /\ RecordsOfKey = { << PyStr(req.thread_lookup_id), thread >> })
    /\ []((HasEv("shelf.get", TRUE) /\ thread_id # 0) =>
             /\ CountEv("threads.create") = 0
             /\ CountEv("shelf.set") = 0
             /\ thread \in { 0, thread_id })
    /\ [][(pc = "lookup" /\ pc' # "done") =>
            \A e \in RecordsOfKey :
               /\ pc' = "retrieve_thread"
               /\ thread_id' = e[2]]_vars

C14_Witness ==
    /\ nreq = 2
    /\ pc = "add_message"
    /\ HasEv("threads.retrieve", TRUE)
    /\ nextThread = 1
    /\ thread = 1
    /\ messages[1] = << >>

\* what a direct call of a handler returning r hands back, as tool output text
\* (a value that is not a str in its JSON form)
DirectOutput(r) == IF r.t = "str" THEN r.v ELSE json_dumps(r)

\* C15: a tool call with a registered name and decodable arguments calls the
\* handler once and yields, under the call's id, the output a direct call of
\* the handler returns, whatever the handler returns.
C15_DispatchEqualsDirectCall ==
    [][(/\ pc = "tool_calls"
        /\ tool_calls[Len(tool_calls)].name \in function_dispatch_table
        /\ tool_calls[Len(tool_calls)].arguments = "json"
        /\ pc' # "done") =>
       (/\ invoked' = invoked + 1
        /\ Len(tools_output') = Len(tools_output) + 1
        /\ ~tools_output'[Len(tools_output')].none
        /\ tools_output'[Len(tools_output')].tool_call_id = Len(tool_calls)
        /\ tools_output'[Len(tools_output')].output \in
              { DirectOutput(r) : r \in PyResults })]_vars

\* C16: the script's process ends if and only if the line main has read is the
\* sentinel "exit" (get_user_input lowers the line before the comparison).
C16_EndsOnlyOnExit == (mainpc # "start") <=> (user_input = "exit")

\* the calls of steps 2, 3 and 4 of process_user_request
LaterStepOps == { "shelf.get", "threads.create", "threads.retrieve", "shelf.set",
                  "messages.create", "runs.create" }

\* C17: when step 1 has failed ('assistant' was never bound), the request makes
\* none of the calls of the later steps: no thread looked up, created or
\* stored, no message appended, no run started.
C17_Step1FailureStops ==
    (nreq > 0 /\ pc # "step1" /\ assistant = "unbound") =>
        \A i \in 1..Len(trace) : trace[i].op \notin LaterStepOps

\* C18: a request that is given an assistant id retrieves that assistant,
\* creates none and uploads no file.
C18_NoUploadForExistingAssistant ==
    (nreq > 0 /\ Truthy(req.assistant_id)) =>
        /\ ~HasEv("files.create", TRUE)
        /\ CountEv("assistants.create") = 0
        /\ HasEv("assistants.retrieve", TRUE) => assistant = req.assistant_id.s

\* C19: the outputs of a requires_action cycle are submitted in one call, made
\* when every pending tool call of the cycle has been processed; when a
\* handler raises, nothing is submitted for the cycle, polling stops and the
\* request returns None.
C19_OneSubmissionPerCycle ==
    /\ [](pc = "submit" =>
            /\ Len(tool_calls) = pending
            /\ Len(tools_output) = pending
            /\ submitted = << >>)
    /\ [](pc = "tool_calls" =>
            /\ Len(tools_output) = Len(tool_calls) - 1
            /\ CountEv("runs.submit_tool_outputs") = ra_seen - 1
            /\ submitted = << >>)
    /\ [](HasEv("handler", FALSE) =>
            /\ pc = "done"
            /\ result = None
            /\ ~propagated
            /\ trace[Len(trace)] = Ev("handler", FALSE)
            /\ runStatus = "requires_action"
            /\ CountEv("runs.submit_tool_outputs") = ra_seen - 1)
    /\ [][(Len(trace') > Len(trace)
              /\ \E i \in (Len(trace) + 1)..Len(trace') :
                    trace'[i].op = "runs.submit_tool_outputs") =>
            /\ pc = "submit"
            /\ Len(trace') = Len(trace) + 1
            /\ pc' = "done" \/ (pc' = "poll" /\ submitted' = tools_output)]_vars

C19_Witness ==
    /\ pc = "done"
    /\ trace[Len(trace)] = Ev("handler", FALSE)
    /\ ra_seen = 2
    /\ CountEv("runs.submit_tool_outputs") = 1

\* C20: a request whose key has a record creates no remote thread and writes
\* nothing to the shelf, also when threads.retrieve raises: the request then
\* returns None and the record is what it was, so the next request for the
\* key meets the same record.
C20_HitNeverCreatesNorWrites ==
    /\ [](pc \in { "create_thread", "store_thread" } => thread_id = 0)
    /\ [](thread_id # 0 =>
            /\ RecordsOfKey = { << PyStr(req.thread_lookup_id), thread_id >> }
            /\ \A i \in 1..Len(trace) : trace[i].op \notin { "threads.create", "shelf.set" })
    /\ [][(pc = "lookup" /\ RecordsOfKey # {}) => pc' \in { "retrieve_thread", "done" }]_vars
    /\ [][pc = "retrieve_thread" =>
            /\ threads_shelf' = threads_shelf
            /\ nextThread' = nextThread
            /\ pc' = "done" =>
                  /\ result' = None
                  /\ ~propagated'
                  /\ trace' = Append(trace, Ev("threads.retrieve", FALSE))]_vars

C20_Witness ==
    /\ nreq = 2
    /\ pc = "done"
    /\ trace[Len(trace)] = Ev("threads.retrieve", FALSE)
    /\ nextThread = 1
    /\ threads_shelf = { << "7", 1 >> }
    /\ result = None

\* ------------------------------------------- properties of two processes
\* process p found no record for its key and has created a thread of its own
Created(p) == procs[p].thread_id = 0 /\ procs[p].thread # 0

\* process p goes on with a thread that the shelf does not give for p's key
Orphaned(p) ==
    /\ procs[p].pc \in { "add_message", "create_run" }
    /\ check_if_thread_exists(threads_shelf, procs[p].lookup_id) # procs[p].thread

\* C21: lookup, create and store are separate steps: two processes can both
\* miss the same key and each create a thread of its own; the shelf then
\* gives the thread of the later store, and the process that stored first
\* goes on with a thread the shelf no longer gives for the key.
C21_LaterStoreReplaces ==
    /\ \A p, q \in Procs :
          (p # q /\ Created(p) /\ Created(q)) => procs[p].thread # procs[q].thread
    /\ \A k \in LookupIds : check_if_thread_exists(threads_shelf, k) = LastStored(k)
    /\ \A p \in Procs :
          Orphaned(p) =>
             \E q \in Procs \ { p } :
                /\ Created(p) /\ Created(q)
                /\ SameKey(procs[p].lookup_id, procs[q].lookup_id)
                /\ \E i, j \in 1..Len(calls) :
                      /\ i < j
                      /\ calls[i].thread_id = procs[p].thread
                      /\ calls[j].thread_id = procs[q].thread

C21_Witness ==
    /\ procs[1].lookup_id = IntKey(111)
    /\ procs[2].lookup_id = StrKey("111")
    /\ Created(1) /\ Created(2)
    /\ procs[1].pc = "create_run"
    /\ procs[2].pc = "create_run"
    /\ threads_shelf = { << "111", procs[2].thread >> }
    /\ Orphaned(1)
    /\ messages[procs[1].thread] = << [role |-> "user", text |-> UserText] >>

====
